---- MODULE Spec2Model ----
(***************************************************************************)
(* Model of plex_database/library.py: the resilient row iterator, the row  *)
(* decoder, model grouping, the join planner, the four entity query        *)
(* builders and the episode mapping pipeline.                              *)
(***************************************************************************)
EXTENDS Integers, Sequences, FiniteSets, TLC

(* ---------------------------------------------------------------- bounds *)
MaxRows == 3        \* rows of a cursor in the iterator specification
MaxFields == 2      \* caller-supplied fields of one call

(* ------------------------------------------------------------- variables *)
VARIABLES
    cursor,     \* the result cursor: the outcome of each result.iterate() in order
    pos,        \* index of the next fetch of the cursor
    yielded,    \* rows the generator has yielded so far
    itState,    \* generator of _tuple_iterator: "suspended" | "done" | "raised"
    lastPull,   \* what the last next() delivered: "none" | "row" | "StopIteration" | "Exception"
    tz,         \* TRUE iff tzlocal/pytz were imported (TZ_LOCAL and pytz are set)
    pIn,        \* arguments of the last _parse call
    pOut,       \* its result
    call,       \* the last builder operation and its arguments
    ret,        \* what it returned or raised, and what it did to the database
    callerWhere, \* the list object a caller passes as `where`
    mgen,       \* the generator Movie.mapped returned (movies_iterator)
    mout,       \* the triples it has yielded
    guids,      \* the `guids` dictionary of the running mapped() call
    parseLog,   \* the calls of Guid.parse made so far, in order
    showCursor, \* the cursor of the shows query of Episode.mapped
    seasonCursor, \* the cursor of its seasons query
    shows,      \* the shows map built by mapped_shows
    seasons,    \* the seasons map built by mapped_seasons
    egen,       \* the generator episodes_iterator
    shgen,      \* the generator shows_iterator
    ctx,        \* the priming context: calls of prime(), entries, and whether it is held
    matchLog,   \* the calls of matcher.process_episode, in order
    eout,       \* the entries episodes_iterator has yielded
    shout       \* the triples shows_iterator has yielded

iterVars == <<cursor, pos, yielded, itState, lastPull>>
parseVars == <<pIn, pOut>>
buildVars == <<call, ret, callerWhere>>
movieVars == <<mgen, mout>>
guidVars == <<guids, parseLog>>
epVars == <<showCursor, seasonCursor, shows, seasons, egen, shgen, ctx, matchLog, eout, shout>>
vars == <<cursor, pos, yielded, itState, lastPull, tz, pIn, pOut, call, ret, callerWhere,
          mgen, mout, guids, parseLog,
          showCursor, seasonCursor, shows, seasons, egen, shgen, ctx, matchLog, eout, shout>>

NoMatcher == [present |-> FALSE, prime |-> FALSE, fan |-> 1, desc |-> FALSE]
NoEpGen == [state |-> "none", fields |-> <<>>, parse_guid |-> FALSE, matcher |-> NoMatcher,
            pending |-> <<>>]
NoShowGen == [state |-> "none", todo |-> {}]
NoCtx == [primes |-> 0, enters |-> 0, held |-> 0]

(* ------------------------------------------------- resilient row iterator *)
\* One result.iterate(): a row, a UnicodeDecodeError or any other exception.
Rows == {1, 2}
FetchRow(r) == [k |-> "row", v |-> r]
FetchUDE == [k |-> "ude", v |-> 0]
FetchErr == [k |-> "err", v |-> 0]
FetchOutcomes == {FetchRow(r) : r \in Rows} \cup {FetchUDE, FetchErr}

SeqsUpTo(S, n) == UNION {[1..m -> S] : m \in 0..n}

\* The body of the `while True` loop for one fetch outcome: the except clause
\* catches UnicodeDecodeError only and continues; a row is yielded; anything
\* else leaves the generator.
LoopBodyMutRaiseOnUDE(o) ==
    IF o.k = "row" THEN "yield" ELSE "raise"

LoopBody(o) ==
    IF o.k = "ude" THEN "continue"
    ELSE IF o.k = "row" THEN "yield"
    ELSE "raise"

\* Resume the generator at fetch index p: loop until a row is yielded, the
\* cursor is exhausted (result.iterate() raises StopIteration) or a fetch
\* raises something that is not caught.
RECURSIVE _tuple_iterator(_, _)
_tuple_iterator(cur, p) ==
    IF p > Len(cur) THEN [kind |-> "stop", row |-> 0, pos |-> p]
    ELSE LET act == LoopBody(cur[p]) IN
         IF act = "continue" THEN _tuple_iterator(cur, p + 1)
         ELSE IF act = "yield" THEN [kind |-> "yield", row |-> cur[p].v, pos |-> p + 1]
         ELSE [kind |-> "raise", row |-> 0, pos |-> p + 1]

IterIdle ==
    /\ cursor = <<>>
    /\ pos = 1
    /\ yielded = <<>>
    /\ itState = "suspended"
    /\ lastPull = "none"

ParseIdle ==
    /\ pIn = [fields |-> <<>>, row |-> <<>>, offset |-> 0]
    /\ pOut = [status |-> "none", leading |-> <<>>, item |-> <<>>]

BuildIdle ==
    /\ call = [op |-> "none", fields |-> <<>>, account |-> [k |-> "null", v |-> 0], where |-> "None"]
    /\ ret = [status |-> "none", executed |-> FALSE, nfetched |-> 0, result |-> <<>>,
              query |-> [select |-> <<>>, joins |-> <<>>, where |-> <<>>]]
    /\ callerWhere = <<"user">>

MovieIdle ==
    /\ mgen = [state |-> "none", fields |-> <<>>, parse_guid |-> FALSE]
    /\ mout = <<>>

GuidIdle ==
    /\ guids = <<>>
    /\ parseLog = <<>>

EpGenIdle ==
    /\ shows = <<>> /\ seasons = <<>>
    /\ egen = NoEpGen /\ shgen = NoShowGen /\ ctx = NoCtx
    /\ matchLog = <<>> /\ eout = <<>> /\ shout = <<>>

EpIdle ==
    /\ showCursor = <<>> /\ seasonCursor = <<>>
    /\ EpGenIdle

InitIter ==
    /\ tz = TRUE
    /\ ParseIdle
    /\ BuildIdle
    /\ MovieIdle
    /\ GuidIdle
    /\ EpIdle
    /\ cursor \in SeqsUpTo(FetchOutcomes, MaxRows)
    /\ pos = 1
    /\ yielded = <<>>
    /\ itState = "suspended"
    /\ lastPull = "none"

\* The consumer calls next() on the generator.
ItNext ==
    /\ itState = "suspended"
    /\ LET r == _tuple_iterator(cursor, pos) IN
       /\ pos' = r.pos
       /\ yielded' = IF r.kind = "yield" THEN Append(yielded, r.row) ELSE yielded
       /\ itState' = IF r.kind = "yield" THEN "suspended"
                     ELSE IF r.kind = "stop" THEN "done" ELSE "raised"
       /\ lastPull' = IF r.kind = "yield" THEN "row"
                      ELSE IF r.kind = "stop" THEN "StopIteration" ELSE "Exception"
    /\ UNCHANGED <<cursor, tz, parseVars, buildVars, movieVars, guidVars, epVars>>

\* next() on a generator that has finished raises StopIteration.
ItNextFinished ==
    /\ itState \in {"done", "raised"}
    /\ lastPull' = "StopIteration"
    /\ UNCHANGED <<cursor, pos, yielded, itState, tz, parseVars, buildVars, movieVars, guidVars, epVars>>

NextIter == ItNext \/ ItNextFinished

SpecIter == InitIter /\ [][NextIter]_vars

(* ------------------------------------------------------------- claim C7 *)
RECURSIVE RowsOf(_)
RowsOf(s) ==
    IF s = <<>> THEN <<>>
    ELSE IF s[1].k = "row" THEN <<s[1].v>> \o RowsOf(Tail(s))
    ELSE RowsOf(Tail(s))

Fetched == SubSeq(cursor, 1, pos - 1)

\* C7: the rows yielded are exactly the rows whose fetch succeeded, in cursor
\* order and each once; a UnicodeDecodeError never ends the iteration, any
\* other exception ends it at that fetch and nothing is fetched or yielded
\* after it.
C7_ResilientIterator ==
    /\ yielded = RowsOf(Fetched)
    /\ \A i \in 1..(pos - 2) : cursor[i].k # "err"
    /\ itState = "raised" <=> (pos > 1 /\ cursor[pos - 1].k = "err")
    /\ itState = "done" <=> pos = Len(cursor) + 1 /\ lastPull = "StopIteration" /\ ~(pos > 1 /\ cursor[pos - 1].k = "err")
    /\ pos <= Len(cursor) + 1

C7_Witness ==
    /\ itState = "raised"
    /\ \E i \in 1..(pos - 1) : cursor[i].k = "ude"
    /\ Len(yielded) >= 1
    /\ \E i, j \in 1..(pos - 1) : i < j /\ cursor[i].k = "ude" /\ cursor[j].k = "row"
(* ------------------------------------- the iterator, one fetch at a time *)
\* The cursor index after one result.iterate(): the fetch consumes the row it
\* was at, whether it returned it or raised on it.
AfterFetchMutStayOnUDE(o, p) == IF o.k = "ude" THEN p ELSE p + 1

AfterFetch(o, p) == p + 1

\* The consumer calls next(): the generator resumes inside `while True`.
ItResume ==
    /\ itState = "suspended"
    /\ itState' = "running"
    /\ UNCHANGED <<cursor, pos, yielded, lastPull, tz, parseVars, buildVars, movieVars,
                   guidVars, epVars>>

\* One turn of `while True`: a fetch, then continue, yield or leave.
ItFetch ==
    /\ itState = "running"
    /\ IF pos > Len(cursor)
       THEN /\ itState' = "done"
            /\ lastPull' = "StopIteration"
            /\ UNCHANGED <<pos, yielded>>
       ELSE /\ pos' = AfterFetch(cursor[pos], pos)
            /\ IF LoopBody(cursor[pos]) = "continue"
               THEN UNCHANGED <<itState, yielded, lastPull>>
               ELSE IF LoopBody(cursor[pos]) = "yield"
               THEN /\ itState' = "suspended"
                    /\ yielded' = Append(yielded, cursor[pos].v)
                    /\ lastPull' = "row"
               ELSE /\ itState' = "raised"
                    /\ lastPull' = "Exception"
                    /\ UNCHANGED yielded
    /\ UNCHANGED <<cursor, tz, parseVars, buildVars, movieVars, guidVars, epVars>>

NextIterLive == ItResume \/ ItFetch \/ ItNextFinished

\* The consumer keeps pulling and the generator body runs on once resumed.
SpecIterLive ==
    InitIter /\ [][NextIterLive]_vars /\ WF_vars(ItResume) /\ WF_vars(ItFetch)

(* ------------------------------------------------------------ claim C13 *)
NoOtherError == \A i \in 1..Len(cursor) : cursor[i].k # "err"

\* C13: on a finite cursor whose fetches return a row or raise
\* UnicodeDecodeError, each consuming one row, a consumer that keeps pulling
\* reaches the end of the iterator: it finishes with the cursor exhausted,
\* however many fetches failed and wherever they are in the cursor.
C13_IteratorTerminates ==
    NoOtherError ~> (itState = "done" /\ pos = Len(cursor) + 1)

C13_Witness ==
    /\ itState = "done"
    /\ NoOtherError
    /\ Len(cursor) >= 3
    /\ cursor[1].k = "row"
    /\ \A i \in 2..Len(cursor) : cursor[i].k = "ude"
    /\ Len(yielded) = 1
(* ----------------------------------------------------------- row decoder *)
\* Field descriptors: the owning model (sub-entity), the column name and the
\* semantic type.  A FieldProxy (a field of the Season or Episode alias of
\* MetadataItem) is unwrapped to its field instance, which keeps the type.
Fld(m, n, t) == [model |-> m, name |-> n, type |-> t]

ModelKeyed == {"MediaItem", "MediaPart", "MetadataItemSettings"}
MODEL_KEYS(m) ==
    IF m = "MediaItem" THEN "media"
    ELSE IF m = "MediaPart" THEN "part"
    ELSE "settings"

\* Raw column values and decoded values.
Val(k, n) == [k |-> k, v |-> n]
None == Val("null", 0)
DtValues == {None, Val("int", 0), Val("int", 7), Val("aware", 7), Val("naive", 7), Val("other", 7)}

\* `not value`: None and the integer 0 are falsy.
Falsy(value) == value.k = "null" \/ (value.k = "int" /\ value.v = 0)

\* TZ_LOCAL.localize(value).astimezone(pytz.utc)
ToUtc(value) == Val("utc", value.v)

Ret(value) == [ok |-> TRUE, val |-> value]
Raise(e) == [ok |-> FALSE, val |-> Val(e, 0)]

_parse_field(field, value, tzok) ==
    IF field.type = "datetime" THEN
        IF Falsy(value) THEN Ret(None)
        ELSE IF value.k = "int" THEN
            \* datetime.fromtimestamp(value), then TZ_LOCAL.localize(...): with
            \* TZ_LOCAL = None the attribute access raises
            (IF tzok THEN Ret(ToUtc(value)) ELSE Raise("AttributeError"))
        ELSE IF value.k \notin {"aware", "naive"} THEN Ret(None)
        ELSE IF value.k = "aware" THEN Ret(value)
        ELSE IF ~tzok THEN Ret(value)
        ELSE Ret(ToUtc(value))
    ELSE Ret(value)

\* The decoded record: a mapping from a path (<<name>> for the primary entity,
\* <<key, name>> for a sub-entity of MODEL_KEYS) to the decoded value.
EmptyItem == [q \in {} |-> None]
EmptyDict == [q \in {} |-> None]
Put(item, path, value) ==
    [q \in (DOMAIN item) \cup {path} |-> IF q = path THEN value ELSE item[q]]

\* Where a field of the given model goes in the record; <<>> when the model
\* is not recognised.
ItemPath(field) ==
    IF field.model \in {"MetadataItem", "Episode"} THEN <<field.name>>
    ELSE IF field.model \in ModelKeyed THEN <<MODEL_KEYS(field.model), field.name>>
    ELSE <<>>

\* The first index the decoder's loop visits: xrange(offset, len(fields)).
FirstDecodedMutOneEarly(offset) == offset

FirstDecoded(offset) == offset + 1

\* The loop body for one field: the parsed value r and the path of the field.
ParseOne(r, path, item) ==
    IF ~r.ok THEN [status |-> r.val.k, item |-> EmptyItem]
    ELSE IF path = <<>> THEN [status |-> "ValueError_parse", item |-> EmptyItem]
    ELSE [status |-> "ok", item |-> Put(item, path, r.val)]

RECURSIVE ParseFrom(_, _, _, _, _)
ParseNext(one, fields, row, x, tzok) ==
    IF one.status # "ok" THEN one ELSE ParseFrom(fields, row, x + 1, one.item, tzok)

ParseFrom(fields, row, x, item, tzok) ==
    IF x > Len(fields) THEN [status |-> "ok", item |-> item]
    ELSE ParseNext(ParseOne(_parse_field(fields[x], row[x], tzok), ItemPath(fields[x]), item),
                   fields, row, x, tzok)

\* _parse(fields, row, offset): tuple(list(row[:offset]) + [item]); a raise
\* returns nothing.
ParseResult(r, row, offset) ==
    IF r.status = "ok"
    THEN [status |-> "ok", leading |-> SubSeq(row, 1, offset), item |-> r.item]
    ELSE [status |-> r.status, leading |-> <<>>, item |-> EmptyItem]

_parse(fields, row, offset, tzok) ==
    ParseResult(ParseFrom(fields, row, FirstDecoded(offset), EmptyItem, tzok), row, offset)

\* Fields a caller may put in a field list.
F_title == Fld("MetadataItem", "title", "plain")
F_width == Fld("MediaItem", "width", "plain")
F_file == Fld("MediaPart", "file", "plain")
F_rating == Fld("MetadataItemSettings", "rating", "plain")
F_last_viewed_at == Fld("MetadataItemSettings", "last_viewed_at", "datetime")
F_tag == Fld("Tags", "tag", "plain")
F_section == Fld("LibrarySection", "name", "plain")
CallerFields == {F_title, F_width, F_file, F_last_viewed_at, F_tag, F_section}

\* The values a column of the given field may hold.
ValuesOf(f) == IF f.type = "datetime" THEN DtValues ELSE {Val("plain", 1)}
RowsFor(fields) ==
    {row \in [1..Len(fields) -> DtValues \cup {Val("plain", 1)}] :
        \A x \in 1..Len(fields) : row[x] \in ValuesOf(fields[x])}

InitParse ==
    /\ IterIdle
    /\ BuildIdle
    /\ MovieIdle
    /\ GuidIdle
    /\ EpIdle
    /\ tz \in BOOLEAN
    /\ ParseIdle

\* One call of the decoder on a row of the given fields.
Parse ==
    /\ \E fields \in SeqsUpTo(CallerFields, MaxFields) :
       \E row \in RowsFor(fields) :
       \E offset \in 0..Len(fields) :
          /\ pIn' = [fields |-> fields, row |-> row, offset |-> offset]
          /\ pOut' = _parse(fields, row, offset, tz)
    /\ UNCHANGED <<iterVars, tz, buildVars, movieVars, guidVars, epVars>>

NextParse == Parse

SpecParse == InitParse /\ [][NextParse]_vars

(* ------------------------------------------------------------- claim C8 *)
Decoded == (pIn.offset + 1)..Len(pIn.fields)
DtNonNull(x) ==
    /\ pIn.fields[x].type = "datetime"
    /\ pIn.row[x].k \in {"int", "aware", "naive"}
    /\ ~Falsy(pIn.row[x])

\* C8: without the timezone collaborator, decoding a row never fails on a
\* datetime field holding a non-null integer epoch, zone-aware or zone-naive
\* datetime: the row is decoded into a record and the value is passed through
\* unconverted.
C8_NoTzNeverFails ==
    (/\ pOut.status # "none"
     /\ ~tz
     /\ \A x \in Decoded : ItemPath(pIn.fields[x]) # <<>>
     /\ \E x \in Decoded : DtNonNull(x))
    => /\ pOut.status = "ok"
       /\ \A x \in Decoded :
             DtNonNull(x) => pOut.item[ItemPath(pIn.fields[x])] = pIn.row[x]
(* ------------------------------------- model grouping and the join planner *)
\* model.__name__: Season and Episode are aliases of MetadataItem, and an
\* alias answers attribute look-ups with the attributes of the aliased model.
ModelName(m) == IF m \in {"Season", "Episode"} THEN "MetadataItem" ELSE m

\* Account arguments: None, an account id, or an Account object.
NoAccount == None
AccountArgs == {NoAccount, Val("id", 1), Val("obj", 1)}
\* `if account and type(account) is Account: account = account.id`
AccountId(a) == IF a.k = "obj" THEN Val("id", a.v) ELSE a

\* _models: the test of model validity made before a model is yielded.
InvalidModelMutNever(m, account) == FALSE

InvalidModel(m, account) == m = "MetadataItemSettings" /\ account = NoAccount

\* _join: what the loop body does with one model.
JoinStep(m, exclude) ==
    IF m = "MetadataItem" THEN "skip"
    ELSE IF m \in exclude THEN "skip"
    ELSE IF m = "MetadataItemSettings" THEN "settings"
    ELSE IF m = "MediaItem" THEN "media"
    ELSE "raise"

\* _join(query, _models(fields, account), account, exclude): _models is a
\* generator, so its check of field i runs when _join's loop asks for the
\* next model, after _join has handled the models of the fields before i.
RECURSIVE PlanFrom(_, _, _, _, _, _)
PlanFrom(fields, i, seen, account, exclude, joins) ==
    IF i > Len(fields) THEN [status |-> "ok", joins |-> joins]
    ELSE LET m == fields[i].model IN
         IF ModelName(m) \in seen
         THEN PlanFrom(fields, i + 1, seen, account, exclude, joins)
         ELSE IF InvalidModel(m, account)
         THEN [status |-> "ValueError_account", joins |-> <<>>]
         ELSE LET step == JoinStep(m, exclude)
                  seen2 == seen \cup {ModelName(m)}
              IN IF step = "raise" THEN [status |-> "ValueError_join", joins |-> <<>>]
                 ELSE IF step = "skip"
                 THEN PlanFrom(fields, i + 1, seen2, account, exclude, joins)
                 ELSE PlanFrom(fields, i + 1, seen2, account, exclude, Append(joins, step))

_join(fields, account, exclude, joins) == PlanFrom(fields, 1, {}, account, exclude, joins)

(* ------------------------------------------------------- identifier columns *)
F_id == Fld("MetadataItem", "id", "plain")
F_guid == Fld("MetadataItem", "guid", "plain")
F_index == Fld("MetadataItem", "index", "plain")
\* subq.c.tag: the tag column of the sub-query over Taggings and Tags
F_subq_tag == Fld("Tags", "tag", "plain")

MovieCallPrepended == <<F_id, F_guid>>
ShowCallPrepended == <<F_id, F_guid, F_subq_tag>>
SeasonCallPrepended == <<F_id, F_index>>
EpisodeCallPrepended == <<F_id, F_index>>

\* The offset each __call__ hands to the decoder.
MovieCallOffset == 2
ShowCallOffset == 3
SeasonCallOffset == 1
EpisodeCallOffset == 2

(* ------------------------------------------------------------ result rows *)
\* A row of a movie, show, season or episode query: the item and its external
\* tag (0: the item has no tag).  The value a row holds in a column:
Ids == {1, 2}
TagIds == {0, 1, 2}
ItemRows == [id : Ids, tag : TagIds]
ColValue(row, f) ==
    IF f = F_id THEN Val("plain", row.id)
    ELSE IF f = F_guid THEN Val("guid", row.id)
    ELSE IF f = F_subq_tag THEN (IF row.tag = 0 THEN None ELSE Val("tag", row.tag))
    ELSE IF f = F_index THEN Val("index", row.id)
    ELSE IF f.type = "datetime"
         THEN (IF row.id = 1 THEN Val("naive", 7) ELSE Val("int", 7))
    ELSE Val("plain", row.id)
RowOf(row, fields) == [x \in 1..Len(fields) |-> ColValue(row, fields[x])]

\* The list comprehension of a __call__: decode every row the resilient
\* iterator yields; a raise of the iterator or of the decoder ends the call.
RECURSIVE Collect(_, _, _, _, _, _)
CollectRow(t, cur, p, fields, offset, tzok, acc) ==
    IF t.status # "ok"
    THEN [status |-> t.status, result |-> <<>>, nfetched |-> p - 1]
    ELSE Collect(cur, p, fields, offset, tzok,
                 Append(acc, [leading |-> t.leading, item |-> t.item]))

CollectFetched(it, cur, fields, offset, tzok, acc) ==
    IF it.kind = "stop" THEN [status |-> "ok", result |-> acc, nfetched |-> it.pos - 1]
    ELSE IF it.kind = "raise"
    THEN [status |-> "Exception", result |-> <<>>, nfetched |-> it.pos - 1]
    ELSE CollectRow(_parse(fields, RowOf(it.row, fields), offset, tzok),
                    cur, it.pos, fields, offset, tzok, acc)

Collect(cur, p, fields, offset, tzok, acc) ==
    CollectFetched(_tuple_iterator(cur, p), cur, fields, offset, tzok, acc)
(* --------------------------------------------------- entity query builders *)
MaxCallRows == 2    \* rows of the cursor of a builder call

NoQuery == [select |-> <<>>, joins |-> <<>>, where |-> <<>>]

\* `where += [...]` extends the list the caller passed, or a fresh list when
\* the caller passed None.
WhereArgs == {"None", "list"}
WhereOf(w) == IF w = "list" THEN callerWhere ELSE <<>>
WhereAfter(w, preds) == WhereOf(w) \o preds

TypePred(etype) == <<"section", etype>>
SeasonPred == <<"Season", "section">>

\* The query a builder plans: select(*fields), the joins of the base query
\* followed by the planner's, and the where list.  Nothing is executed.
Planned(pl, select, where) ==
    [status |-> pl.status, executed |-> FALSE, nfetched |-> 0, result |-> <<>>,
     query |-> IF pl.status = "ok"
               THEN [select |-> select, joins |-> pl.joins, where |-> where]
               ELSE NoQuery]

PlanQuery(select, account, exclude, prejoins, where) ==
    Planned(_join(select, AccountId(account), exclude, prejoins), select, where)

\* A __call__: plan, then execute and decode every row.
Collected(c, q) ==
    [status |-> c.status, executed |-> TRUE, nfetched |-> c.nfetched,
     result |-> c.result, query |-> q.query]

Executed(q, cur, select, offset) ==
    IF q.status # "ok" THEN q
    ELSE Collected(Collect(cur, 1, select, offset, tz, <<>>), q)

PlanAndCollect(cur, select, offset, account, exclude, prejoins, where) ==
    Executed(PlanQuery(select, account, exclude, prejoins, where), cur, select, offset)

CallSet(op, fields, account, w, preds, r) ==
    /\ call.op = "none"
    /\ call' = [op |-> op, fields |-> fields, account |-> account, where |-> w]
    /\ ret' = r
    /\ callerWhere' = IF w = "list" THEN WhereAfter(w, preds) ELSE callerWhere

Called(op, fields, account, w, preds, r) ==
    /\ CallSet(op, fields, account, w, preds, r)
    /\ UNCHANGED <<iterVars, tz, parseVars, movieVars, guidVars, epVars>>

\* A __call__ runs its query on what the database holds at that time.
CalledOn(cur, op, fields, account, w, preds, r) ==
    /\ CallSet(op, fields, account, w, preds, r)
    /\ cursor' = cur
    /\ UNCHANGED <<pos, yielded, itState, lastPull, tz, parseVars, movieVars, guidVars, epVars>>

MovieQuery(fields, account, w) ==
    Called("Movie.query", fields, account, w, TypePred("Movie"),
           PlanQuery(fields, account, {}, <<>>, WhereAfter(w, TypePred("Movie"))))

MovieCall(cur, fields, account, w) ==
    CalledOn(cur, "Movie.__call__", fields, account, w, TypePred("Movie"),
           PlanAndCollect(cur, MovieCallPrepended \o fields, MovieCallOffset, account, {}, <<>>,
                          WhereAfter(w, TypePred("Movie"))))

ShowQuery(fields, account, w) ==
    Called("Show.query", fields, account, w, TypePred("Show"),
           PlanQuery(fields, account, {}, <<>>, WhereAfter(w, TypePred("Show"))))

\* Show.__call__ builds its own query: the tag sub-query and the settings
\* join come first, and the planner is told to leave them alone.
ShowCallExclude == {"MetadataItemSettings", "Taggings", "Tags"}
ShowCallRet(cur, fields, account, where) ==
    PlanAndCollect(cur, ShowCallPrepended \o fields, ShowCallOffset, account,
                   ShowCallExclude, <<"tags", "settings">>, where)

ShowCall(cur, fields, account, w) ==
    CalledOn(cur, "Show.__call__", fields, account, w, TypePred("Show"),
           ShowCallRet(cur, fields, account, WhereAfter(w, TypePred("Show"))))

SeasonCallRet(cur, fields, account, where) ==
    PlanAndCollect(cur, SeasonCallPrepended \o fields, SeasonCallOffset, account, {}, <<>>, where)

SeasonCall(cur, fields, account, w) ==
    CalledOn(cur, "Season.__call__", fields, account, w, SeasonPred,
           SeasonCallRet(cur, fields, account, WhereAfter(w, SeasonPred)))

EpisodeQuery(fields, account, w) ==
    Called("Episode.query", fields, account, w, TypePred("Episode"),
           PlanQuery(fields, account, {}, <<>>, WhereAfter(w, TypePred("Episode"))))

EpisodeCall(cur, fields, account, w) ==
    CalledOn(cur, "Episode.__call__", fields, account, w, TypePred("Episode"),
           PlanAndCollect(cur, EpisodeCallPrepended \o fields, EpisodeCallOffset, account, {}, <<>>,
                          WhereAfter(w, TypePred("Episode"))))

BuildFetches == {FetchRow([id |-> 1, tag |-> 0]), FetchRow([id |-> 2, tag |-> 2]), FetchUDE}
FieldLists == SeqsUpTo(CallerFields, MaxFields)

BuildCursors == SeqsUpTo(BuildFetches, MaxCallRows)

InitBuild ==
    /\ cursor = <<>>
    /\ pos = 1 /\ yielded = <<>> /\ itState = "suspended" /\ lastPull = "none"
    /\ tz \in BOOLEAN
    /\ ParseIdle
    /\ BuildIdle
    /\ MovieIdle
    /\ GuidIdle
    /\ showCursor = <<FetchRow([id |-> 1, tag |-> 1])>>
    /\ seasonCursor = <<FetchRow([id |-> 1, tag |-> 0])>>
    /\ EpGenIdle

DoMovieQuery ==
    /\ call.op = "none"
    /\ \E f \in FieldLists, a \in AccountArgs : MovieQuery(f, a, "None")
DoMovieCall ==
    /\ call.op = "none"
    /\ \E c \in BuildCursors, f \in FieldLists, a \in AccountArgs : MovieCall(c, f, a, "None")
DoShowQuery ==
    /\ call.op = "none"
    /\ \E f \in FieldLists, a \in AccountArgs : ShowQuery(f, a, "None")
DoShowCall ==
    /\ call.op = "none"
    /\ \E c \in BuildCursors, f \in FieldLists, a \in AccountArgs : ShowCall(c, f, a, "None")
DoSeasonCall ==
    /\ call.op = "none"
    /\ \E c \in BuildCursors, f \in FieldLists, a \in AccountArgs : SeasonCall(c, f, a, "None")
DoEpisodeQuery ==
    /\ call.op = "none"
    /\ \E f \in FieldLists, a \in AccountArgs : EpisodeQuery(f, a, "None")
DoEpisodeCall ==
    /\ call.op = "none"
    /\ \E c \in BuildCursors, f \in FieldLists, a \in AccountArgs : EpisodeCall(c, f, a, "None")

\* The caller drops what the last call returned; its cursor is gone with it.
Discard ==
    /\ call.op # "none"
    /\ call' = [op |-> "none", fields |-> <<>>, account |-> None, where |-> "None"]
    /\ ret' = [status |-> "none", executed |-> FALSE, nfetched |-> 0, result |-> <<>>,
               query |-> NoQuery]
    /\ mgen' = [state |-> "none", fields |-> <<>>, parse_guid |-> FALSE]
    /\ mout' = <<>>
    /\ guids' = <<>>
    /\ parseLog' = <<>>
    /\ shows' = EmptyDict /\ seasons' = EmptyDict
    /\ egen' = NoEpGen /\ shgen' = NoShowGen /\ ctx' = NoCtx
    /\ matchLog' = <<>> /\ eout' = <<>> /\ shout' = <<>>
    /\ cursor' = <<>> /\ pos' = 1
    /\ UNCHANGED <<yielded, itState, lastPull, tz, parseVars, callerWhere, showCursor, seasonCursor>>

(* ------------------------------------------------------------ Movie.mapped *)
MaxMovieRows == 3   \* rows of the cursor of a Movie.mapped call

F_duration == Fld("MediaPart", "duration", "plain")
F_view_count == Fld("MetadataItemSettings", "view_count", "plain")
F_view_offset == Fld("MetadataItemSettings", "view_offset", "plain")
MovieMappedPrepended ==
    <<F_id, F_guid, F_subq_tag, F_duration, F_file,
      F_rating, F_view_count, F_view_offset, F_last_viewed_at>>
MovieMappedOffset == 3
MovieMappedExclude == {"MetadataItemSettings", "MediaItem", "MediaPart", "Taggings", "Tags"}

\* Guid.parse(x, strict=True) on a well-formed identifier.
GuidParse(x) ==
    [k |-> IF x.k = "tag" THEN "parsed_tag" ELSE IF x.k = "guid" THEN "parsed_guid" ELSE "parsed",
     v |-> x.v]

\* `if tag:`
Truthy(value) == value.k # "null"

\* The identifier handed to Guid.parse for a row.
Preferred(guid, tag) == IF Truthy(tag) THEN tag ELSE guid

HasKey(d, key) == key \in DOMAIN d
SetKey(d, key, value) == [q \in (DOMAIN d) \cup {key} |-> IF q = key THEN value ELSE d[q]]

\* Movie.mapped up to `return movies_iterator()`: the query is planned, the
\* generator is created and nothing is executed.
MovieMapped(fields, account, w, parse_guid) ==
    LET select == MovieMappedPrepended \o fields
        r == PlanQuery(select, account, MovieMappedExclude,
                       <<"tags", "media", "part", "settings">>,
                       WhereAfter(w, TypePred("Movie")))
    IN /\ CallSet("Movie.mapped", fields, account, w, TypePred("Movie"), r)
       /\ mgen' = [state |-> IF r.status = "ok" THEN "suspended" ELSE "none",
                   fields |-> select, parse_guid |-> parse_guid]
       /\ mout' = <<>>
       /\ guids' = EmptyDict
       /\ parseLog' = <<>>
       /\ pos' = 1
       /\ UNCHANGED <<cursor, yielded, itState, lastPull, tz, parseVars, epVars>>

\* next() on movies_iterator: fetch and decode the next row, resolve its guid
\* and yield the triple.
MoviePull ==
    /\ mgen.state = "suspended"
    /\ LET it == _tuple_iterator(cursor, pos)
           t == _parse(mgen.fields, RowOf(it.row, mgen.fields), MovieMappedOffset, tz)
           id == t.leading[1]
           guid == t.leading[2]
           tag == t.leading[3]
           miss == mgen.parse_guid /\ ~HasKey(guids, id)
           guids2 == IF miss THEN SetKey(guids, id, GuidParse(Preferred(guid, tag))) ELSE guids
       IN /\ pos' = it.pos
          /\ IF it.kind = "yield" /\ t.status = "ok"
             THEN /\ guids' = guids2
                  /\ parseLog' = IF miss
                                 THEN Append(parseLog, [id |-> id, arg |-> Preferred(guid, tag)])
                                 ELSE parseLog
                  /\ mout' = Append(mout, [id |-> id,
                                           guid |-> IF mgen.parse_guid THEN guids2[id] ELSE guid,
                                           item |-> t.item, row |-> it.row])
                  /\ mgen' = mgen
             ELSE /\ mgen' = [mgen EXCEPT !.state = IF it.kind = "stop" THEN "done" ELSE "raised"]
                  /\ UNCHANGED <<mout, guids, parseLog>>
    /\ ret' = [ret EXCEPT !.executed = TRUE, !.nfetched = pos' - 1]
    /\ UNCHANGED <<cursor, yielded, itState, lastPull, tz, parseVars, call, callerWhere, epVars>>

MovieFetches == {FetchRow(r) : r \in ItemRows} \cup {FetchUDE, FetchErr}
\* Rows of one item come from one left outer join with the tag sub-query: they
\* all carry a tag or none does.
JoinConsistent(cur) ==
    \A i, j \in 1..Len(cur) :
        (cur[i].k = "row" /\ cur[j].k = "row" /\ cur[i].v.id = cur[j].v.id)
            => ((cur[i].v.tag = 0) <=> (cur[j].v.tag = 0))

InitMovie ==
    /\ cursor \in {c \in SeqsUpTo(MovieFetches, MaxMovieRows) : JoinConsistent(c)}
    /\ pos = 1 /\ yielded = <<>> /\ itState = "suspended" /\ lastPull = "none"
    /\ tz \in BOOLEAN
    /\ ParseIdle
    /\ BuildIdle
    /\ MovieIdle
    /\ GuidIdle
    /\ EpIdle

DoMovieMappedRun ==
    /\ call.op = "none"
    /\ \E pg \in BOOLEAN : MovieMapped(<<>>, Val("id", 1), "None", pg)

NextMovie == DoMovieMappedRun \/ MoviePull

SpecMovie == InitMovie /\ [][NextMovie]_vars

(* ---------------------------------------------------------- Episode.mapped *)
MaxEpRows == 2      \* rows of the episodes cursor
MaxFan == 2         \* episode numbers the matcher returns for one row

F_season_id == Fld("Season", "id", "plain")
F_episode_id == Fld("Episode", "id", "plain")
F_episode_index == Fld("Episode", "index", "plain")
MappedEpisodesPrepended ==
    <<F_id, F_season_id, F_episode_id, F_episode_index, F_duration, F_file,
      F_rating, F_view_count, F_view_offset, F_last_viewed_at>>
MappedEpisodesOffset == 4
MappedEpisodesExclude == {"MetadataItemSettings", "MediaItem", "MediaPart"}

\* A row of the episodes query: the show and the season it hangs under.  The
\* episode is the one of that show and season.
EpRows == [sh : Ids, se : Ids]
EpisodeIdOf(row) == 2 * (row.sh - 1) + row.se
EpColValue(row, f) ==
    IF f = F_id THEN Val("plain", row.sh)
    ELSE IF f = F_season_id THEN Val("plain", row.se)
    ELSE IF f = F_episode_id THEN Val("plain", EpisodeIdOf(row))
    ELSE IF f = F_episode_index THEN Val("index", EpisodeIdOf(row))
    ELSE IF f = F_file THEN Val("file", EpisodeIdOf(row))
    ELSE IF f.type = "datetime"
         THEN (IF row.se = 1 THEN Val("naive", 7) ELSE Val("int", 7))
    ELSE Val("plain", EpisodeIdOf(row))
EpRowOf(row, fields) == [x \in 1..Len(fields) |-> EpColValue(row, fields[x])]

\* mapped_shows: the first row of an id wins, its tag is preferred to its guid.
ShowIdentifier(guid, tag) == IF Truthy(tag) THEN tag ELSE guid

RECURSIVE ShowsDict(_, _)
ShowsDict(rows, out) ==
    IF rows = <<>> THEN out
    ELSE LET t == rows[1]
             id == t.leading[1]
         IN ShowsDict(Tail(rows),
                      IF HasKey(out, id) THEN out
                      ELSE SetKey(out, id, [guid |-> ShowIdentifier(t.leading[2], t.leading[3]),
                                            show |-> t.item]))

\* mapped_seasons: dict([(id, season) ...]), a later row of an id replaces an
\* earlier one.
RECURSIVE SeasonsDict(_, _)
SeasonsDict(rows, out) ==
    IF rows = <<>> THEN out
    ELSE SeasonsDict(Tail(rows), SetKey(out, rows[1].leading[1], rows[1].item))

\* The matcher: absent, or one that returns `fan` episode numbers starting at
\* the raw index, ascending or descending, and moves the season by one when it
\* reorders; its cache may or may not support priming.
Matchers ==
    {NoMatcher} \cup
    {[present |-> TRUE, prime |-> p, fan |-> n, desc |-> n >= 2] :
        p \in BOOLEAN, n \in 0..MaxFan}
process_episode(m, ep_id, season_index, ep_index, file) ==
    [season |-> Val("index", season_index.v + (IF m.desc THEN 1 ELSE 0)),
     nums |-> [i \in 1..m.fan |->
                 Val("index", IF m.desc THEN ep_index.v + m.fan - i ELSE ep_index.v + i - 1)]]

\* `with context:` around the matcher call.
CtxEnter(c) == [c EXCEPT !.enters = @ + 1, !.held = @ + 1]
CtxExitMutKeep(c) == c

CtxExit(c) == [c EXCEPT !.held = @ - 1]

\* `if id not in guids` in Episode.mapped: no `id` is bound in mapped or in its
\* two generators, so the name is the builtin function, which is never a key.
BuiltinId == Val("builtin", 0)
EpGuidMiss(d, sh_id) == ~HasKey(d, BuiltinId)

\* Episode.mapped up to its return: the shows and the seasons are fetched, the
\* episodes query is planned, the cache is primed and the two generators are
\* created.
MappedEpisodesQuery(ep_fields, account) ==
    PlanQuery(MappedEpisodesPrepended \o ep_fields, account, MappedEpisodesExclude,
              <<"season", "episode", "media", "part", "settings">>, TypePred("Show"))

\* The three steps in the order mapped() takes them; the first that raises
\* ends the call.
MappedSteps(shr, ser, epq) ==
    IF shr.status # "ok" THEN [r |-> shr, shows |-> EmptyDict, seasons |-> EmptyDict]
    ELSE IF ser.status # "ok"
    THEN [r |-> [ser EXCEPT !.executed = TRUE, !.nfetched = shr.nfetched + ser.nfetched],
          shows |-> EmptyDict, seasons |-> EmptyDict]
    ELSE [r |-> [epq EXCEPT !.executed = TRUE, !.nfetched = shr.nfetched + ser.nfetched],
          shows |-> IF epq.status = "ok" THEN ShowsDict(shr.result, EmptyDict) ELSE EmptyDict,
          seasons |-> IF epq.status = "ok" THEN SeasonsDict(ser.result, EmptyDict)
                      ELSE EmptyDict]

EpisodeMappedRet(sh_fields, se_fields, ep_fields, account) ==
    MappedSteps(ShowCallRet(showCursor, <<F_rating>> \o sh_fields, AccountId(account),
                            TypePred("Show")),
                SeasonCallRet(seasonCursor, <<F_rating>> \o se_fields, AccountId(account),
                              SeasonPred),
                MappedEpisodesQuery(ep_fields, AccountId(account)))

EpisodeMappedDone(x, fields, ep_fields, account, parse_guid, m) ==
       /\ CallSet("Episode.mapped", fields, account, "None", <<>>, x.r)
       /\ shows' = x.shows
       /\ seasons' = x.seasons
       /\ ctx' = [primes |-> IF x.r.status = "ok" /\ m.present /\ m.prime THEN 1 ELSE 0,
                  enters |-> 0, held |-> 0]
       /\ egen' = [state |-> IF x.r.status = "ok" THEN "suspended" ELSE "none",
                   fields |-> MappedEpisodesPrepended \o ep_fields,
                   parse_guid |-> parse_guid, matcher |-> m, pending |-> <<>>]
       /\ shgen' = [state |-> IF x.r.status = "ok" THEN "suspended" ELSE "none",
                    todo |-> DOMAIN x.shows]
       /\ guids' = EmptyDict
       /\ parseLog' = <<>> /\ matchLog' = <<>> /\ eout' = <<>> /\ shout' = <<>>
       /\ pos' = 1
       /\ UNCHANGED <<cursor, yielded, itState, lastPull, tz, parseVars, movieVars,
                      showCursor, seasonCursor>>

EpisodeMapped(sh_fields, se_fields, ep_fields, account, parse_guid, m) ==
    EpisodeMappedDone(EpisodeMappedRet(sh_fields, se_fields, ep_fields, account),
                      sh_fields \o se_fields \o ep_fields, ep_fields, account, parse_guid, m)

\* next() on shows_iterator: shows.items() hands out the shows in no
\* particular order.
ShowsPull ==
    /\ shgen.state = "suspended"
    /\ egen.state # "running"
    /\ IF shgen.todo = {}
       THEN /\ shgen' = [shgen EXCEPT !.state = "done"]
            /\ UNCHANGED <<guids, parseLog, shout>>
       ELSE \E sh_id \in shgen.todo :
            LET guid == shows[sh_id].guid
                miss == egen.parse_guid /\ EpGuidMiss(guids, sh_id)
                guids2 == IF miss THEN SetKey(guids, sh_id, GuidParse(guid)) ELSE guids
            IN /\ guids' = guids2
               /\ parseLog' = IF miss THEN Append(parseLog, [id |-> sh_id, arg |-> guid])
                              ELSE parseLog
               /\ shout' = Append(shout, [id |-> sh_id,
                                          guid |-> IF egen.parse_guid THEN guids2[sh_id] ELSE guid])
               /\ shgen' = [shgen EXCEPT !.todo = @ \ {sh_id}]
    /\ UNCHANGED <<iterVars, tz, parseVars, buildVars, movieVars,
                   showCursor, seasonCursor, shows, seasons, egen, ctx, matchLog, eout>>
\* The entries of one episode row: one per episode number, in the order the
\* numbers came in.
EntriesMutSeasonIndex(ids, guid, season_num, nums, season_index, rowix) ==
    [i \in 1..Len(nums) |->
        [ids |-> ids, guid |-> guid, num |-> <<season_index, nums[i]>>, row |-> rowix]]

Entries(ids, guid, season_num, nums, season_index, rowix) ==
    [i \in 1..Len(nums) |->
        [ids |-> ids, guid |-> guid, num |-> <<season_num, nums[i]>>, row |-> rowix]]

\* `if sh_id not in shows: continue` and `if se_id not in seasons: continue`
ParentsMissingMutShowOnly(sh_id, se_id) == ~HasKey(shows, sh_id)

ParentsMissing(sh_id, se_id) == ~HasKey(shows, sh_id) \/ ~HasKey(seasons, se_id)

\* The arguments of self.matcher.process_episode for one row:
\* ep_id, (season['index'], ep_index), episode['part']['file'].
MatcherArgsMutSeasonId(ep_id, se_id, season, ep_index, episode) ==
    [ep |-> ep_id, season |-> se_id, index |-> ep_index,
     file |-> episode[<<"part", "file">>]]

MatcherArgs(ep_id, se_id, season, ep_index, episode) ==
    [ep |-> ep_id, season |-> season[<<"index">>], index |-> ep_index,
     file |-> episode[<<"part", "file">>]]

\* One turn of the loop of episodes_iterator: fetch and decode the next row,
\* look its parents up, resolve the guid, run the matcher inside the context
\* and yield the first entry of the row.
EpRowStep ==
    LET it == _tuple_iterator(cursor, pos)
        t == _parse(egen.fields, EpRowOf(it.row, egen.fields), MappedEpisodesOffset, tz)
        sh_id == t.leading[1]
        se_id == t.leading[2]
        ep_id == t.leading[3]
        ep_index == t.leading[4]
        episode == t.item
        season == seasons[se_id]
        guid0 == shows[sh_id].guid
        miss == egen.parse_guid /\ EpGuidMiss(guids, sh_id)
        guids2 == IF miss THEN SetKey(guids, sh_id, GuidParse(guid0)) ELSE guids
        guid == IF egen.parse_guid THEN guids2[sh_id] ELSE guid0
        m == egen.matcher
        args == MatcherArgs(ep_id, se_id, season, ep_index, episode)
        res == IF m.present
               THEN process_episode(m, args.ep, args.season, args.index, args.file)
               ELSE [season |-> season[<<"index">>], nums |-> <<ep_index>>]
        es == Entries([show |-> sh_id, season |-> se_id, episode |-> ep_id], guid,
                      res.season, res.nums, season[<<"index">>], it.pos - 1)
    IN /\ pos' = it.pos
       /\ IF it.kind # "yield" \/ t.status # "ok"
          THEN /\ egen' = [egen EXCEPT !.state = IF it.kind = "stop" THEN "done" ELSE "raised"]
               /\ UNCHANGED <<guids, parseLog, ctx, matchLog, eout>>
          ELSE IF ParentsMissing(sh_id, se_id)
          THEN /\ egen' = [egen EXCEPT !.state = "running"]
               /\ UNCHANGED <<guids, parseLog, ctx, matchLog, eout>>
          ELSE IF ~HasKey(shows, sh_id) \/ ~HasKey(seasons, se_id)
          THEN \* shows[sh_id] or seasons[se_id] raises KeyError
               /\ egen' = [egen EXCEPT !.state = "raised"]
               /\ UNCHANGED <<guids, parseLog, ctx, matchLog, eout>>
          ELSE /\ guids' = guids2
               /\ parseLog' = IF miss THEN Append(parseLog, [id |-> sh_id, arg |-> guid0])
                              ELSE parseLog
               /\ ctx' = IF m.present THEN CtxExit(CtxEnter(ctx)) ELSE ctx
               /\ matchLog' = IF m.present
                              THEN Append(matchLog,
                                          [ep |-> args.ep, season |-> args.season,
                                           index |-> args.index, file |-> args.file,
                                           held |-> CtxEnter(ctx).held, primes |-> ctx.primes,
                                           rseason |-> res.season, nums |-> res.nums,
                                           row |-> it.pos - 1])
                              ELSE matchLog
               /\ IF es = <<>>
                  THEN /\ egen' = [egen EXCEPT !.state = "running"]
                       /\ eout' = eout
                  ELSE /\ egen' = [egen EXCEPT !.state = "suspended", !.pending = Tail(es)]
                       /\ eout' = Append(eout, es[1])
       /\ ret' = [ret EXCEPT !.nfetched = @ + (it.pos - pos)]
       /\ UNCHANGED <<cursor, yielded, itState, lastPull, tz, parseVars, call, callerWhere,
                      movieVars, showCursor, seasonCursor, shows, seasons, shgen, shout>>

\* next() on episodes_iterator.
EpPull ==
    /\ egen.state = "suspended"
    /\ IF egen.pending # <<>>
       THEN /\ eout' = Append(eout, egen.pending[1])
            /\ egen' = [egen EXCEPT !.pending = Tail(@)]
            /\ UNCHANGED <<iterVars, tz, parseVars, buildVars, movieVars, guidVars,
                           showCursor, seasonCursor, shows, seasons, shgen, ctx, matchLog, shout>>
       ELSE EpRowStep

\* The loop goes on after a row that yielded nothing.
EpRow ==
    /\ egen.state = "running"
    /\ EpRowStep

\* The consumer abandons episodes_iterator: close() raises GeneratorExit at the
\* yield the generator is suspended at, which is outside the `with` block.
EpClose ==
    /\ egen.state = "suspended"
    /\ egen' = [egen EXCEPT !.state = "closed", !.pending = <<>>]
    /\ UNCHANGED <<iterVars, tz, parseVars, buildVars, movieVars, guidVars,
                   showCursor, seasonCursor, shows, seasons, shgen, ctx, matchLog, eout, shout>>

ShowFetches == {FetchRow([id |-> 1, tag |-> 1]), FetchRow([id |-> 1, tag |-> 2]),
                FetchRow([id |-> 2, tag |-> 0])}
MaxShowRows == 1    \* rows of the shows cursor and of the seasons cursor
SeasonFetches == {FetchRow([id |-> i, tag |-> 0]) : i \in Ids}
EpFetches == {FetchRow(r) : r \in EpRows} \cup {FetchUDE, FetchErr}

InitEp ==
    /\ cursor \in SeqsUpTo(EpFetches, MaxEpRows)
    /\ pos = 1 /\ yielded = <<>> /\ itState = "suspended" /\ lastPull = "none"
    /\ tz = TRUE
    /\ ParseIdle
    /\ BuildIdle
    /\ MovieIdle
    /\ GuidIdle
    /\ showCursor \in SeqsUpTo(ShowFetches, MaxShowRows)
    /\ seasonCursor \in SeqsUpTo(SeasonFetches, MaxShowRows)
    /\ EpGenIdle

DoEpisodeMappedRun ==
    /\ call.op = "none"
    /\ \E pg \in BOOLEAN, m \in Matchers :
        EpisodeMapped(<<>>, <<>>, <<>>, Val("id", 1), pg, m)

NextEp == DoEpisodeMappedRun \/ ShowsPull \/ EpPull \/ EpRow \/ EpClose

SpecEp == InitEp /\ [][NextEp]_vars
(* ------------------------------------- the builder specification, completed *)
DoMovieMapped ==
    /\ call.op = "none"
    /\ \E f \in FieldLists, a \in AccountArgs, pg \in BOOLEAN : MovieMapped(f, a, "None", pg)

\* The caller's fields go to the shows, the seasons or the episodes query.
DoEpisodeMapped ==
    /\ call.op = "none"
    /\ \E f \in FieldLists, a \in AccountArgs, slot \in 1..3 :
        EpisodeMapped(IF slot = 1 THEN f ELSE <<>>, IF slot = 2 THEN f ELSE <<>>,
                      IF slot = 3 THEN f ELSE <<>>, a, FALSE, NoMatcher)

NextBuild ==
    \/ Discard
    \/ DoMovieQuery
    \/ DoMovieCall
    \/ DoMovieMapped
    \/ DoShowQuery
    \/ DoShowCall
    \/ DoSeasonCall
    \/ DoEpisodeQuery
    \/ DoEpisodeCall
    \/ DoEpisodeMapped

SpecBuild == InitBuild /\ [][NextBuild]_vars
(* -------------------------------- a caller that reuses one `where` list *)
MaxWhere == 5       \* predicates the caller's list may grow to

\* mapped_episodes called on its own with a where list: the query is built
\* and a generator is returned, nothing is executed.
MappedEpisodesCall(fields, account, w) ==
    Called("Episode.mapped_episodes", fields, account, w, TypePred("Show"),
           PlanQuery(MappedEpisodesPrepended \o fields, account, MappedEpisodesExclude,
                     <<"season", "episode", "media", "part", "settings">>,
                     WhereAfter(w, TypePred("Show"))))

WhereFieldLists == {<<>>, <<F_title>>, <<F_rating>>}
WhereCursors == {<<>>, <<FetchRow([id |-> 1, tag |-> 0])>>}
WhereRoom == call.op = "none" /\ Len(callerWhere) + 2 <= MaxWhere

WhereMovieQuery ==
    /\ WhereRoom
    /\ \E f \in WhereFieldLists, a \in AccountArgs : MovieQuery(f, a, "list")
WhereMovieCall ==
    /\ WhereRoom
    /\ \E c \in WhereCursors, f \in WhereFieldLists, a \in AccountArgs :
          MovieCall(c, f, a, "list")
WhereMovieMapped ==
    /\ WhereRoom
    /\ \E f \in WhereFieldLists, a \in AccountArgs : MovieMapped(f, a, "list", FALSE)
WhereShowQuery ==
    /\ WhereRoom
    /\ \E f \in WhereFieldLists, a \in AccountArgs : ShowQuery(f, a, "list")
WhereShowCall ==
    /\ WhereRoom
    /\ \E c \in WhereCursors, f \in WhereFieldLists, a \in AccountArgs :
          ShowCall(c, f, a, "list")
WhereSeasonCall ==
    /\ WhereRoom
    /\ \E c \in WhereCursors, f \in WhereFieldLists, a \in AccountArgs :
          SeasonCall(c, f, a, "list")
WhereEpisodeQuery ==
    /\ WhereRoom
    /\ \E f \in WhereFieldLists, a \in AccountArgs : EpisodeQuery(f, a, "list")
WhereEpisodeCall ==
    /\ WhereRoom
    /\ \E c \in WhereCursors, f \in WhereFieldLists, a \in AccountArgs :
          EpisodeCall(c, f, a, "list")
WhereMappedEpisodes ==
    /\ WhereRoom
    /\ \E f \in WhereFieldLists, a \in AccountArgs : MappedEpisodesCall(f, a, "list")

NextWhere ==
    \/ Discard
    \/ WhereMovieQuery
    \/ WhereMovieCall
    \/ WhereMovieMapped
    \/ WhereShowQuery
    \/ WhereShowCall
    \/ WhereSeasonCall
    \/ WhereEpisodeQuery
    \/ WhereEpisodeCall
    \/ WhereMappedEpisodes

SpecWhere == InitBuild /\ [][NextWhere]_vars
(* ------------------------------------------------------------- claim C3 *)
CallerHas(models) == \E x \in 1..Len(call.fields) : call.fields[x].model \in models
NothingRun ==
    /\ ~ret.executed /\ ret.nfetched = 0 /\ ret.result = <<>>
    /\ mgen.state = "none" /\ egen.state = "none" /\ shgen.state = "none"
\* The caller fields the planner of every builder lets through.
PlannedEverywhere == {"MetadataItem", "MediaItem", "MetadataItemSettings"}

\* C3: an operation called with a settings field and no account raises
\* ValueError while the query is planned: nothing is executed, no row is
\* fetched and no generator is returned; the error is the one of the account
\* check unless the planner rejected an earlier field.  With an account the
\* account check never raises.
C3_SettingsNeedAccount ==
    /\ (call.op # "none" /\ CallerHas({"MetadataItemSettings"}) /\ call.account = NoAccount)
        => /\ ret.status \in {"ValueError_account", "ValueError_join"}
           /\ NothingRun
           /\ (\A x \in 1..Len(call.fields) : call.fields[x].model \in PlannedEverywhere)
                => ret.status = "ValueError_account"
    /\ (call.op # "none" /\ call.account # NoAccount) => ret.status # "ValueError_account"

C3_Witness ==
    /\ call.op = "Movie.__call__"
    /\ CallerHas({"MetadataItemSettings"})
    /\ call.account = NoAccount
    /\ ret.status = "ValueError_account"
    /\ Len(cursor) >= 1
    /\ cursor[1].k = "row"

(* ------------------------------------------------------------- claim C4 *)
DecoderModels == {"MetadataItem", "Episode"} \cup ModelKeyed

\* C4: an operation called with a field of a sub-entity the decoder does not
\* recognise raises while the query is planned, whatever exclude list the
\* builder hands to the planner: nothing is executed and no row is fetched.
C4_UnknownRejectedAtPlanTime ==
    (call.op # "none" /\ \E x \in 1..Len(call.fields) : call.fields[x].model \notin DecoderModels)
        => /\ ret.status \in {"ValueError_account", "ValueError_join"}
           /\ NothingRun

(* ------------------------------------------------------------ claim C10 *)
CallOps == {"Movie.__call__", "Show.__call__", "Season.__call__", "Episode.__call__"}
PrependedOf(op) ==
    IF op = "Movie.__call__" THEN MovieCallPrepended
    ELSE IF op = "Show.__call__" THEN ShowCallPrepended
    ELSE IF op = "Season.__call__" THEN SeasonCallPrepended
    ELSE EpisodeCallPrepended
CallerPaths == {ItemPath(call.fields[x]) : x \in 1..Len(call.fields)}

\* C10 as claimed: every tuple a __call__ returns has as many leading raw
\* values as the builder prepended identifier columns, and its record holds
\* the caller's fields only.
C10_LeadingEqualsPrepended ==
    call.op \in CallOps =>
        \A n \in 1..Len(ret.result) :
            /\ Len(ret.result[n].leading) = Len(PrependedOf(call.op))
            /\ DOMAIN ret.result[n].item = CallerPaths

\* C10 as amended: that holds of Movie, Show and Episode; a tuple of Season has
\* one leading raw value, the id, and the prepended index column is decoded
\* into its record under "index".
C10_LeadingIsOffset ==
    call.op \in CallOps =>
        \A n \in 1..Len(ret.result) :
            LET t == ret.result[n] IN
            IF call.op = "Season.__call__"
            THEN /\ Len(t.leading) = 1
                 /\ t.leading[1].k = "plain"
                 /\ DOMAIN t.item = CallerPaths \cup {<<"index">>}
                 /\ t.item[<<"index">>].k = "index"
            ELSE /\ Len(t.leading) = Len(PrependedOf(call.op))
                 /\ DOMAIN t.item = CallerPaths

C10_Witness ==
    /\ call.op = "Season.__call__"
    /\ Len(ret.result) = 2
    /\ \E x \in 1..Len(call.fields) : call.fields[x].model = "MediaItem"
    /\ \E x \in 1..Len(call.fields) : call.fields[x].model = "MetadataItemSettings"
(* ------------------------------------------------------------- claim C1 *)
\* C1: within one mapped() call Guid.parse is called at most once per item
\* id, whatever rows carry the id and in whatever order the generators are
\* pulled.
C1_ParseOncePerId ==
    \A i, j \in 1..Len(parseLog) : parseLog[i].id = parseLog[j].id => i = j

(* ------------------------------------------------------------- claim C2 *)
Primable == egen.state # "none" /\ egen.matcher.present /\ egen.matcher.prime
EpFinished == egen.state \in {"done", "closed", "raised"}

\* C2 as claimed: prime(force=True) is called once, the context is acquired
\* once, stays held while the loop runs and is released when the iterator is
\* exhausted or abandoned.
C2_HeldForWholeLoop ==
    Primable =>
        /\ ctx.primes = 1
        /\ ctx.enters <= 1
        /\ (ctx.enters = 1 /\ ~EpFinished) => ctx.held = 1
        /\ EpFinished => ctx.held = 0

\* The rows of the episodes cursor the generator has taken and whose parents
\* are both in the maps.
RowShow(i) == Val("plain", cursor[i].v.sh)
RowSeason(i) == Val("plain", cursor[i].v.se)
RowEpisode(i) == Val("plain", EpisodeIdOf(cursor[i].v))
WithParents(i) ==
    /\ cursor[i].k = "row"
    /\ HasKey(shows, RowShow(i))
    /\ HasKey(seasons, RowSeason(i))
Taken == 1..(pos - 1)

\* C2 as amended: prime(force=True) is called exactly once per mapped() call;
\* the context is entered once for each episode row with both parents, around
\* the matcher call of that row only, and is released before the row's first
\* entry is yielded, so it is held in no state in which the iterator is
\* suspended, exhausted, failed or abandoned.
C2_ContextScopedToMatcherCall ==
    egen.state # "none" =>
        /\ ctx.primes = IF Primable THEN 1 ELSE 0
        /\ ctx.held = 0
        /\ ctx.enters = Len(matchLog)
        /\ egen.matcher.present => ctx.enters = Cardinality({i \in Taken : WithParents(i)})
        /\ \A n \in 1..Len(matchLog) :
              /\ matchLog[n].held = 1
              /\ matchLog[n].primes = ctx.primes

C2_Witness ==
    /\ Primable
    /\ egen.state = "closed"
    /\ ctx.enters = 2
    /\ Len(eout) >= 2

(* ------------------------------------------------------------- claim C5 *)
EntriesOfRow(i) == SelectSeq(eout, LAMBDA e : e.row = i)
OneNumberPerCall == \A n \in 1..Len(matchLog) : Len(matchLog[n].nums) = 1

\* C5: an episode row whose show or season is missing yields no entry, is not
\* handed to the matcher and does not end the iteration; when the matcher
\* returns one number per call, or there is none, the entries yielded are as
\* many as the rows taken that have both parents.
C5_MissingParentsSkipped ==
    egen.state # "none" =>
        /\ \A i \in Taken :
              (cursor[i].k = "row" /\ ~WithParents(i)) =>
                  /\ EntriesOfRow(i) = <<>>
                  /\ \A n \in 1..Len(matchLog) : matchLog[n].row # i
        /\ egen.state = "raised" => (pos > 1 /\ cursor[pos - 1].k = "err")
        /\ OneNumberPerCall =>
              Len(eout) = Cardinality({i \in Taken : WithParents(i)})

C5_Witness ==
    /\ egen.state = "done"
    /\ egen.matcher.present /\ egen.matcher.fan = 1
    /\ Len(eout) = 1
    /\ Len(cursor) = 2
    /\ cursor[1].k = "row" /\ HasKey(shows, RowShow(1)) /\ ~HasKey(seasons, RowSeason(1))
    /\ WithParents(2)

(* ------------------------------------------------------------- claim C6 *)
ShownGuid(i) ==
    IF egen.parse_guid THEN GuidParse(shows[RowShow(i)].guid) ELSE shows[RowShow(i)].guid
IsPrefix(a, b) == Len(a) <= Len(b) /\ a = SubSeq(b, 1, Len(a))

\* C6: for a row the matcher answered with (s, [e1..ek]) the entries yielded
\* are k, next to one another and in the order e1..ek, each numbered (s, ei)
\* and all with the ids of that row and the guid of its show; while the
\* generator is suspended inside the row the entries still to come are the
\* rest of these.
C6_FanOut ==
    /\ \A a, b \in 1..Len(eout) : a <= b => eout[a].row <= eout[b].row
    /\ \A n \in 1..Len(matchLog) :
          LET l == matchLog[n]
              i == l.row
              want == [x \in 1..Len(l.nums) |->
                          [ids |-> [show |-> RowShow(i), season |-> RowSeason(i),
                                    episode |-> RowEpisode(i)],
                           guid |-> ShownGuid(i),
                           num |-> <<l.rseason, l.nums[x]>>,
                           row |-> i]]
              got == EntriesOfRow(i)
          IN /\ IsPrefix(got, want)
             /\ (i = pos - 1 /\ egen.state = "suspended") => got \o egen.pending = want
             /\ (i < pos - 1 \/ egen.state \in {"done", "raised", "running"}) => got = want

C6_Witness ==
    /\ egen.state = "done"
    /\ egen.matcher.present /\ egen.matcher.fan = 2
    /\ Len(matchLog) = 2
    /\ Len(eout) = 4
    /\ eout[1].num # eout[2].num
    /\ eout[1].ids = eout[2].ids

(* ------------------------------------------------------------ claim C12 *)
\* What the caller put in its where list, and what each builder adds.
OwnPreds == <<"user">>
PredsOf(op) ==
    IF op \in {"Movie.query", "Movie.__call__", "Movie.mapped"} THEN TypePred("Movie")
    ELSE IF op \in {"Show.query", "Show.__call__", "Episode.mapped_episodes"}
    THEN TypePred("Show")
    ELSE IF op = "Season.__call__" THEN SeasonPred
    ELSE TypePred("Episode")

\* C12: the builders leave the where list they are passed as the caller made
\* it, so every query built from that list filters by the caller's predicates
\* followed by the builder's own two, however many calls came before.
C12_WhereListUnchanged ==
    /\ callerWhere = OwnPreds
    /\ (call.where = "list" /\ ret.status = "ok") =>
          ret.query.where = OwnPreds \o PredsOf(call.op)

(* ------------------------------------------------------------ claim C11 *)
CalledRows == {matchLog[n].row : n \in 1..Len(matchLog)}

\* C11: with a matcher configured, process_episode is called exactly once for
\* each episode row taken whose show and season are both in the maps and for
\* no other row, in the order of the rows, each time with the context held
\* and with the episode id, the index of the row's season, the raw episode
\* index and the media file of that row; no entry of a row is yielded before
\* the call for that row has been made.  Without a matcher it is never called.
C11_MatcherOncePerRow ==
    egen.state # "none" =>
        /\ \A a, b \in 1..Len(matchLog) : a < b => matchLog[a].row < matchLog[b].row
        /\ CalledRows = IF egen.matcher.present THEN {i \in Taken : WithParents(i)} ELSE {}
        /\ \A n \in 1..Len(matchLog) :
              LET l == matchLog[n] IN
              /\ l.held = 1
              /\ l.ep = RowEpisode(l.row)
              /\ l.season = seasons[RowSeason(l.row)][<<"index">>]
              /\ l.index = Val("index", EpisodeIdOf(cursor[l.row].v))
              /\ l.file = Val("file", EpisodeIdOf(cursor[l.row].v))
        /\ egen.matcher.present => \A x \in 1..Len(eout) : eout[x].row \in CalledRows

C11_Witness ==
    /\ egen.state = "done"
    /\ egen.matcher.present /\ egen.matcher.fan = 2
    /\ Len(cursor) = 2
    /\ cursor[1].k = "row" /\ cursor[2].k = "row"
    /\ cursor[1].v # cursor[2].v
    /\ WithParents(1) /\ ~WithParents(2)
    /\ Len(matchLog) = 1
    /\ Len(eout) = 2

(* ------------------------------------------------------------- claim C9 *)
RECURSIVE FirstRowOf(_, _)
FirstRowOf(cur, id) ==
    IF cur[1].k = "row" /\ cur[1].v.id = id THEN cur[1].v ELSE FirstRowOf(Tail(cur), id)
TagOrGuid(row) == IF row.tag # 0 THEN Val("tag", row.tag) ELSE Val("guid", row.id)

\* C9: the identifier delivered for an item is the external tag of its row
\* when the row has one and the native guid otherwise: in every triple of
\* Movie.mapped, with guid parsing enabled or not, and in every entry of the
\* shows map.
C9_PrefersTag ==
    /\ \A n \in 1..Len(mout) :
          mout[n].guid = IF mgen.parse_guid THEN GuidParse(TagOrGuid(mout[n].row))
                         ELSE TagOrGuid(mout[n].row)
    /\ \A id \in DOMAIN shows :
          shows[id].guid = TagOrGuid(FirstRowOf(showCursor, id.v))
====
